---- MODULE Spec2Model ----
(***************************************************************************)
(* State-machine model of src/main.js: the start-up pipeline of the        *)
(* driving demo (asset loading, terrain, vehicle, road, trees, listeners,  *)
(* animation frames) together with the terrain height query.               *)
(*                                                                         *)
(* Numbers.  JavaScript numbers are modelled as exact rationals            *)
(* [n |-> numerator, d |-> denominator], d > 0, in lowest terms; the value *)
(* NaN (arithmetic on an undefined array element) is [n |-> 0, d |-> 0].   *)
(* Floating-point rounding is not modelled.                                *)
(*                                                                         *)
(* Arrays.  The typed arrays data[] and the Y components of the terrain    *)
(* position attribute are sequences; element i of the source (0-based) is  *)
(* element i + 1 of the sequence.                                          *)
(***************************************************************************)
EXTENDS Integers, Sequences, FiniteSets, TLC

VARIABLES
    worldWidth,    \* grid columns: const worldWidth = resolution
    worldDepth,    \* grid rows: const worldDepth = resolution
    pc,            \* position of init() / of the page: see PcValues
    loads,         \* asset -> "idle" | "pending" | "loaded" | "failed"
    loadAttempts,  \* asset -> number of loadAsync calls made for it
    promiseAll,    \* "none" | "pending" | "fulfilled" | "rejected"
    errorShown,    \* document.body.innerHTML replaced by the error message
    treeModel,     \* the global treeModel is set
    data,          \* Uint8Array data[]
    vertices,      \* Y of geometry.attributes.position, in units of 1/VertexDen
    terrainMesh,   \* the global terrainMesh is assigned
    scene,         \* names of the objects added to the scene (trees are counted)
    vehicle,       \* [exists, x, z, y, rotation]: the vehicle mesh
    vehicleSpeed,  \* the global vehicleSpeed, in 1/100
    pathPoints,    \* road centre line: sequence of [x, y, z]
    roadLength,    \* curve.getLength(), in 1/1000
    uvX,           \* road uv attribute, X component, in units of 1/UvXDen
    uvY,           \* road uv attribute, Y component, in units of 1/UvYDen
    roadBuilt,     \* "none" | "flat" | "conformed": the geometry of roadMesh
    treeCount,     \* populateTrees loop counter i = clones added to the scene
    clone,         \* the clone of the current populateTrees iteration
    listeners,     \* events with a registered handler
    rafPending,    \* a requestAnimationFrame callback is queued
    frames,        \* number of executions of animate()
    keys,          \* the keys object
    viewport,      \* size the renderer / camera aspect were last set from
    windowSize,    \* window.innerWidth x innerHeight (environment)
    hq,            \* most recent call of getTerrainHeight
    notReady       \* calls of getTerrainHeight that took the "terrain not ready" return

vars == <<worldWidth, worldDepth, pc, loads, loadAttempts, promiseAll, errorShown, treeModel, data,
          vertices, terrainMesh, scene, vehicle, vehicleSpeed, pathPoints,
          roadLength, uvX, uvY, roadBuilt, treeCount, clone, listeners,
          rafPending, frames, keys, viewport, windowSize, hq, notReady>>

(***************************************************************************)
(* Program constants (src/main.js lines 21-35, 311-312).                   *)
(***************************************************************************)
terrainWidth == 400
terrainDepth == 800
resolution == 128
heightScale == 30
roadWidth == 12
roadSegments == 100
roadTextureRepeat == 10
numTrees == 500
treeScale == 5
radialSegments == 8

size == worldWidth * worldDepth
divisions == roadSegments * 2

(***************************************************************************)
(* Bounds of the model.  The grid resolution is fixed when the module is   *)
(* evaluated; it is a variable that no action changes, so that the whole   *)
(* pipeline (Spec) is explored on a grid of ModelResolution x              *)
(* ModelResolution vertices and the terrain and its height query           *)
(* (SpecTerrain) on the grid of the source, resolution x resolution.       *)
(***************************************************************************)
ModelResolution == 4 \* grid resolution of Spec
NoiseDen == 100     \* noise values are k / NoiseDen, k in -NoiseDen..NoiseDen
MaxFar == 6         \* how far outside the terrain the height query is probed
RandDenX == 4       \* Math.random() for x is r / RandDenX
RandDenZ == 1       \* Math.random() for z is r / RandDenZ
RandDenYaw == 1     \* Math.random() for the yaw is r / RandDenYaw
MaxFrames == 2      \* animation frames explored
MaxDelta == 1       \* clock.getDelta() is 0..MaxDelta seconds
MaxWindow == 2      \* window sizes explored

(***************************************************************************)
(* Exact rational arithmetic standing for JavaScript number arithmetic.    *)
(***************************************************************************)
\* An operator that uses an argument several times is written over the set
\* {argument}: its element is the argument's value, taken once.
Abs(a) == IF a < 0 THEN -a ELSE a

\* Math.min, Math.max
Min(a, b) == CHOOSE m \in {IF x < y THEN x ELSE y : x \in {a}, y \in {b}} : TRUE

Max(a, b) == CHOOSE m \in {IF x > y THEN x ELSE y : x \in {a}, y \in {b}} : TRUE

RECURSIVE GCD(_, _)
GCD(a, b) ==
    IF b = 0 THEN a ELSE CHOOSE g \in {GCD(b, r) : r \in {a % b}} : TRUE

Lcm(a, b) == (a \div GCD(a, b)) * b

NaN == [n |-> 0, d |-> 0]

IsNaN(q) == q.d = 0

Q(n, d) ==
    IF d = 0 THEN NaN
    ELSE LET g == GCD(Abs(n), Abs(d))
             s == IF d < 0 THEN -1 ELSE 1
         IN  [n |-> s * (n \div g), d |-> s * (d \div g)]

Int2Q(k) == [n |-> k, d |-> 1]

MulQ(a, b) ==
    CHOOSE q \in
        {IF IsNaN(x) \/ IsNaN(y) THEN NaN
         ELSE LET g1 == GCD(Abs(x.n), y.d)
                  g2 == GCD(Abs(y.n), x.d)
              IN  [n |-> (x.n \div g1) * (y.n \div g2),
                   d |-> (x.d \div g2) * (y.d \div g1)] :
         x \in {a}, y \in {b}} : TRUE

AddQ(a, b) ==
    CHOOSE q \in
        {IF IsNaN(x) \/ IsNaN(y) THEN NaN
         ELSE LET g == GCD(x.d, y.d)
              IN  Q(x.n * (y.d \div g) + y.n * (x.d \div g), (x.d \div g) * y.d) :
         x \in {a}, y \in {b}} : TRUE

NegQ(a) == [n |-> -a.n, d |-> a.d]

SubQ(a, b) == AddQ(a, NegQ(b))

\* a / b for b # 0
DivQ(a, b) ==
    CHOOSE q \in
        {IF IsNaN(x) \/ IsNaN(y) THEN NaN ELSE MulQ(x, Q(y.d, y.n)) :
         x \in {a}, y \in {b}} : TRUE

LeQ(a, b) == \E x \in {a}, y \in {b} : x.n * y.d <= y.n * x.d

\* Math.floor
FloorQ(a) == CHOOSE f \in {x.n \div x.d : x \in {a}} : TRUE

\* truncation toward zero (the integer part JavaScript's % removes)
TruncQ(a) ==
    CHOOSE t \in {IF x.n >= 0 THEN x.n \div x.d ELSE -((-x.n) \div x.d) :
                  x \in {a}} : TRUE

\* JavaScript a % b for b > 0: the remainder has the sign of a
ModQ(a, b) ==
    CHOOSE q \in {SubQ(x, MulQ(y, Int2Q(TruncQ(DivQ(x, y))))) :
                  x \in {a}, y \in {b}} : TRUE

(***************************************************************************)
(* Terrain generation: createTerrain, lines 127-154.                       *)
(***************************************************************************)
\* vertices[] holds height * VertexDen: the source multiplies data[i] by
\* (heightScale / 128).
VertexDen == 128

\* Scale applied to the normalised noise before it is stored in data[] (line 143).
DataScale == 128

\* Number of values of an 8-bit array element (Uint8Array, line 130).
ByteRange == 256

\* Stand-in for noise.noise(x, z, 0) at grid cell (ix, iz): the numerator of a
\* value in [-1, 1] with denominator NoiseDen.  ImprovedNoise is a fixed,
\* deterministic function; the stand-in sweeps every value k / NoiseDen.
NoiseNum(ix, iz) == ((ix * 37 + iz * 101) % (2 * NoiseDen + 1)) - NoiseDen

\* The noise scaled to the whole byte range
NoiseSampleByte(n) == MulQ(AddQ(MulQ(Q(n, NoiseDen), Q(1, 2)), Q(1, 2)), Int2Q(ByteRange))

\* (noise * 0.5 + 0.5) * 128, the value assigned to data[i]
NoiseSample(n) ==
    MulQ(AddQ(MulQ(Q(n, NoiseDen), Q(1, 2)), Q(1, 2)), Int2Q(DataScale))

\* Storing a non-negative or negative number in a Uint8Array element:
\* truncate toward zero, then reduce modulo 2^8.
ToUint8(v) == TruncQ(v) % ByteRange

\* data[i] after the loop body ran for index i
DataAt(i) == ToUint8(NoiseSample(NoiseNum(i % worldWidth, i \div worldWidth)))

\* vertices[j + 1] = data[i] * (heightScale / 128), as a numerator over VertexDen
VertexHeight(byte) == byte * heightScale

(***************************************************************************)
(* Height query: getTerrainHeight, lines 185-226.                          *)
(***************************************************************************)
TerrainReady == terrainMesh /\ vertices # <<>>

cellWidth == Q(terrainWidth, worldWidth - 1)

cellDepth == Q(terrainDepth, worldDepth - 1)

localX(x) == AddQ(x, Q(terrainWidth, 2))

localZ(z) == AddQ(z, Q(terrainDepth, 2))

gridX(x) == FloorQ(DivQ(localX(x), cellWidth))

gridZ(z) == FloorQ(DivQ(localZ(z), cellDepth))

\* The clamp of the column to the last vertex instead of the last cell
clampedGridXToVertex(x) == Max(0, Min(worldWidth - 1, gridX(x)))

clampedGridX(x) == Max(0, Min(worldWidth - 2, gridX(x)))

clampedGridZ(z) == Max(0, Min(worldDepth - 2, gridZ(z)))

\* The corner indices with the row and the column exchanged
p00IndexTransposed(cx, cz) == cx * worldWidth + cz

\* The four corner indices of the cell (cx, cz) = (clampedGridX, clampedGridZ)
p00Index(cx, cz) == cz * worldWidth + cx

p10Index(cx, cz) == cz * worldWidth + cx + 1

p01Index(cx, cz) == (cz + 1) * worldWidth + cx

p11Index(cx, cz) == (cz + 1) * worldWidth + cx + 1

\* position.getY(index): undefined outside the attribute, which the
\* arithmetic that follows turns into NaN
getY(index) ==
    IF index + 1 \in DOMAIN vertices THEN Q(vertices[index + 1], VertexDen)
    ELSE NaN

fracU(x) == DivQ(ModQ(localX(x), cellWidth), cellWidth)

fracV(z) == DivQ(ModQ(localZ(z), cellDepth), cellDepth)

\* (1-u)(1-v) y00 + u(1-v) y10 + (1-u)v y01 + uv y11, evaluated over the
\* common denominator u.d * v.d * (common denominator of the four heights)
Bilinear(fu, fv, c00, c10, c01, c11) ==
    CHOOSE h \in
        {IF IsNaN(u) \/ IsNaN(v) \/ IsNaN(y00) \/ IsNaN(y10) \/ IsNaN(y01) \/ IsNaN(y11)
         THEN NaN
         ELSE LET yd == Lcm(Lcm(y00.d, y10.d), Lcm(y01.d, y11.d))
                  n00 == y00.n * (yd \div y00.d)
                  n10 == y10.n * (yd \div y10.d)
                  n01 == y01.n * (yd \div y01.d)
                  n11 == y11.n * (yd \div y11.d)
              IN  Q((u.d - u.n) * (v.d - v.n) * n00 + u.n * (v.d - v.n) * n10
                      + (u.d - u.n) * v.n * n01 + u.n * v.n * n11,
                    u.d * v.d * yd) :
         u \in {fu}, v \in {fv}, y00 \in {c00}, y10 \in {c10},
         y01 \in {c01}, y11 \in {c11}} : TRUE

\* The corner indices getTerrainHeight(x, z) reads, in the order 00, 10, 01, 11
CornerIndices(x, z) ==
    CHOOSE c \in
        {<<p00Index(cx, cz), p10Index(cx, cz), p01Index(cx, cz), p11Index(cx, cz)>> :
         cx \in {clampedGridX(x)}, cz \in {clampedGridZ(z)}} : TRUE

interpolatedHeight(x, z) ==
    CHOOSE h \in
        {Bilinear(fracU(x), fracV(z), getY(c[1]), getY(c[2]), getY(c[3]), getY(c[4])) :
         c \in {CornerIndices(x, z)}} : TRUE

getTerrainHeight(x, z) ==
    IF ~TerrainReady THEN Int2Q(0) ELSE interpolatedHeight(x, z)

\* The record kept of a call of getTerrainHeight(x, z)
HeightCall(x, z) ==
    [called |-> TRUE, x |-> x, z |-> z, ready |-> TerrainReady,
     cell |-> IF TerrainReady THEN CornerIndices(x, z) ELSE <<>>,
     h |-> getTerrainHeight(x, z)]

NoCall ==
    [called |-> FALSE, x |-> Int2Q(0), z |-> Int2Q(0), ready |-> FALSE,
     cell |-> <<>>, h |-> Int2Q(0)]

(***************************************************************************)
(* Road generation: generateRoads, lines 229-293.                          *)
(* Lengths are integers in units of 1/1000 ("milli").  THREE.TubeGeometry  *)
(* and CatmullRomCurve3 are library code: the curve is sampled as the      *)
(* polyline through its control points, the tube frame of the flat curve   *)
(* has its normal along Y and its binormal horizontal, across the tangent. *)
(***************************************************************************)
Milli == 1000

\* Math.sin(z * 0.05) * 5 for z = roadStartZ + i * roadSegmentLength, rounded
\* to one decimal place and written in milli
WiggleTable ==
    <<-4600, -3400, -1700, 200, 2200, 3800, 4700, 5000, 4400, 3200, 1400,
      -500, -2400, -3900, -4800, -5000, -4300, -3000, -1200, 800, 2700,
      4100, 4900, 4900, 4100, 2700, 900, -1100, -2900, -4300, -4900,
      -4800, -4000, -2500, -600, 1400, 3200, 4400, 5000, 4800, 3800, 2200,
      300, -1700, -3400, -4500, -5000, -4700, -3600, -1900, 0, 1900, 3600,
      4700, 5000, 4500, 3400, 1700, -300, -2200, -3800, -4800, -5000,
      -4400, -3200, -1400, 600, 2500, 4000, 4800, 4900, 4300, 2900, 1100,
      -900, -2700, -4100, -4900, -4900, -4100, -2700, -800, 1200, 3000,
      4300, 5000, 4800, 3900, 2400, 500, -1400, -3200, -4400, -5000,
      -4700, -3800, -2200, -200, 1700, 3400, 4600>>

roadStartZ == -(terrainDepth \div 2)

roadSegmentLength == terrainDepth \div roadSegments

\* The planned path point i (0-based), y = 0
PlanPoint(i) ==
    [x |-> Q(WiggleTable[i + 1], Milli),
     y |-> Int2Q(0),
     z |-> Int2Q(roadStartZ + i * roadSegmentLength)]

RECURSIVE ISqrtIter(_, _, _)
ISqrtIter(n, lo, hi) ==
    IF lo >= hi THEN lo
    ELSE LET mid == (lo + hi + 1) \div 2
         IN  IF mid * mid <= n THEN ISqrtIter(n, mid, hi)
             ELSE ISqrtIter(n, lo, mid - 1)

\* floor of the square root (Math.sqrt inside Vector3.length / distanceTo)
ISqrt(n) == ISqrtIter(n, 0, 46340)

\* Centre of tube ring k (k in 0..divisions), milli
RingX(k) ==
    IF k % 2 = 0 THEN WiggleTable[(k \div 2) + 1]
    ELSE (WiggleTable[((k - 1) \div 2) + 1] + WiggleTable[((k + 1) \div 2) + 1]) \div 2

RingZ(k) == roadStartZ * Milli + k * ((terrainDepth * Milli) \div divisions)

\* Unit tangent of the curve at ring k, components in 1/1000
RingTangent(k) ==
    LET a == Max(0, k - 1)
        b == Min(divisions, k + 1)
        dx == RingX(b) - RingX(a)
        dz == RingZ(b) - RingZ(a)
        len == ISqrt(dx * dx + dz * dz)
    IN  [x |-> (dx * Milli) \div len, z |-> (dz * Milli) \div len]

\* Math.sin(j / radialSegments * 2 * PI) in 1/10000
SinTable == <<0, 7071, 10000, 7071, 0, -7071, -10000, -7071, 0>>

SinDen == 10000

\* Vertex i of the tube: ring i \div 9, radial position i % 9
TubeVertexCount == (divisions + 1) * (radialSegments + 1)

TubeVertexX(i) ==
    LET k == i \div (radialSegments + 1)
        j == i % (radialSegments + 1)
    IN  RingX(k) + ((roadWidth \div 2) * SinTable[j + 1] * RingTangent(k).z) \div SinDen

TubeVertexZ(i) ==
    LET k == i \div (radialSegments + 1)
        j == i % (radialSegments + 1)
    IN  RingZ(k) - ((roadWidth \div 2) * SinTable[j + 1] * RingTangent(k).x) \div SinDen

\* Length of the chord from ring k - 1 to ring k
ChordLength(k) ==
    LET dx == RingX(k) - RingX(k - 1)
        dz == RingZ(k) - RingZ(k - 1)
    IN  ISqrt(dx * dx + dz * dz)

\* Sum of the chord lengths lo..hi
RECURSIVE PolylineLength(_, _)
PolylineLength(lo, hi) ==
    IF lo > hi THEN 0
    ELSE IF lo = hi THEN ChordLength(lo)
    ELSE LET mid == (lo + hi) \div 2
         IN  PolylineLength(lo, mid) + PolylineLength(mid + 1, hi)

\* curve.getLength(): the sum of the chord lengths of `divisions` samples
CurveLength == PolylineLength(1, divisions)

\* Denominators of the stored uv components
UvXDen == 2 * (roadWidth \div 2) * Milli

UvYDen == radialSegments * roadLength

\* uv of a fresh TubeGeometry: (ring / tubularSegments, j / radialSegments)
TubeDefaultUvX(i) == (i \div (radialSegments + 1)) * (UvXDen \div divisions)

TubeDefaultUvY(i, length) == (i % (radialSegments + 1)) * length

\* (xValue / (roadWidth / 2) + 1) / 2, numerator over UvXDen
RoadUvX(i) == TubeVertexX(i) + (roadWidth \div 2) * Milli

\* zValue / roadLength * roadTextureRepeat, numerator over UvYDen
RoadUvY(i) == TubeVertexZ(i) * roadTextureRepeat * radialSegments

\* Clearance added to the terrain height under a path point (line 282)
Clearance == Q(1, 10)

(***************************************************************************)
(* Tree placement: populateTrees, lines 308-344.                           *)
(***************************************************************************)
AbsQ(a) == [n |-> Abs(a.n), d |-> a.d]

LtQ(a, b) == a.n * b.d < b.n * a.d

\* The sample over the whole extent, without the 0.9 margin
SamplePositionWhole(r, den, extent) ==
    MulQ(SubQ(Q(r, den), Q(1, 2)), Int2Q(extent))

\* (Math.random() - 0.5) * extent * 0.9 with Math.random() = r / den
SamplePosition(r, den, extent) ==
    MulQ(MulQ(SubQ(Q(r, den), Q(1, 2)), Int2Q(extent)), Q(9, 10))

\* The exclusion test with "or" for "and"
InRoadAreaEither(x, z) ==
    \/ LtQ(AbsQ(x), MulQ(Int2Q(roadWidth), Q(3, 2)))
    \/ LtQ(AbsQ(z), MulQ(Int2Q(terrainDepth), Q(1, 2)))

\* the do-while condition: the sample is rejected and drawn again
InRoadArea(x, z) ==
    /\ LtQ(AbsQ(x), MulQ(Int2Q(roadWidth), Q(3, 2)))
    /\ LtQ(AbsQ(z), MulQ(Int2Q(terrainDepth), Q(1, 2)))

NoClone ==
    [state |-> "none", x |-> Int2Q(0), z |-> Int2Q(0), y |-> Int2Q(0),
     yaw |-> Int2Q(0), scale |-> 1]

(***************************************************************************)
(* Vehicle and game loop: createVehicle, animate, lines 297-305, 361-402.  *)
(* Speeds are in 1/100, angles in 1/100 rad, delta in whole seconds.       *)
(***************************************************************************)
maxSpeed == 50

acceleration == 2

deceleration == 1

steeringSpeed == 5

\* Math.abs(vehicleSpeed) > 0.01
SteerThreshold == 1

KeyNames == {"ArrowUp", "ArrowDown", "ArrowLeft", "ArrowRight"}

\* event.key of a keyboard event: the four tracked keys and an untracked one
EventKeys == KeyNames \cup {"a"}

\* Positions the displaced vehicle is probed at.  The displacement depends on
\* the real-valued heading and frame time; the model lets a moving vehicle
\* arrive at any of these points, inside and outside the terrain.
VehicleProbes ==
    {[x |-> Int2Q(0), z |-> Int2Q(-3)],
     [x |-> Int2Q(250), z |-> Int2Q(-450)]}

\* new vehicleSpeed after the key handling of one frame
NextSpeed(speed, delta) ==
    IF keys["ArrowUp"] THEN Min(maxSpeed, speed + acceleration * delta)
    ELSE IF keys["ArrowDown"]
         THEN Max(-(maxSpeed \div 2), speed - acceleration * delta)
         ELSE LET s1 == IF speed > 0 THEN Max(0, speed - deceleration * delta)
                        ELSE speed
              IN  IF s1 < 0 THEN Min(0, s1 + deceleration * delta) ELSE s1

\* new vehicle.rotation.y after the steering of one frame
NextRotation(rotation, speed, delta) ==
    IF Abs(speed) > SteerThreshold
    THEN LET dir == IF speed > 0 THEN 1 ELSE -1
             left == IF keys["ArrowLeft"] THEN steeringSpeed * delta * dir ELSE 0
             right == IF keys["ArrowRight"] THEN steeringSpeed * delta * dir ELSE 0
         IN  rotation + left - right
    ELSE rotation

\* Height of the vehicle above the terrain (line 393)
VehicleOffset == Q(3, 2)

\* The body of animate() for frame time delta, the vehicle arriving at p
Animate(delta, p) ==
    LET speed == NextSpeed(vehicleSpeed, delta)
        rot == NextRotation(vehicle.rotation, speed, delta)
        moved == speed * delta # 0
        x == IF moved THEN p.x ELSE vehicle.x
        z == IF moved THEN p.z ELSE vehicle.z
        call == HeightCall(x, z)
    IN  /\ moved \/ (p.x = vehicle.x /\ p.z = vehicle.z)
        /\ rafPending' = TRUE
        /\ vehicleSpeed' = speed
        /\ hq' = call
        /\ notReady' = notReady + (IF TerrainReady THEN 0 ELSE 1)
        /\ vehicle' = [vehicle EXCEPT !.x = x, !.z = z, !.rotation = rot,
                                      !.y = AddQ(call.h, VehicleOffset)]
        /\ frames' = frames + 1

(***************************************************************************)
(* State after the module is evaluated and before window.onload fires.     *)
(***************************************************************************)
Assets == {"grassTexture", "roadTexture", "treeModel"}

\* The state for a grid of res x res vertices
InitWith(res) ==
    /\ worldWidth = res
    /\ worldDepth = res
    /\ pc = "idle"
    /\ loads = [a \in Assets |-> "idle"]
    /\ loadAttempts = [a \in Assets |-> 0]
    /\ promiseAll = "none"
    /\ errorShown = FALSE
    /\ treeModel = FALSE
    /\ data = [i \in 1..size |-> 0]
    /\ vertices = <<>>
    /\ terrainMesh = FALSE
    /\ scene = {}
    /\ vehicle = [exists |-> FALSE, x |-> Int2Q(0), z |-> Int2Q(0),
                  y |-> Int2Q(0), rotation |-> 0]
    /\ vehicleSpeed = 0
    /\ pathPoints = <<>>
    /\ roadLength = 0
    /\ uvX = <<>>
    /\ uvY = <<>>
    /\ roadBuilt = "none"
    /\ treeCount = 0
    /\ clone = NoClone
    /\ listeners = {}
    /\ rafPending = FALSE
    /\ frames = 0
    /\ keys = [k \in KeyNames |-> FALSE]
    /\ viewport = 0
    /\ windowSize = 1
    /\ hq = NoCall
    /\ notReady = 0

Init == InitWith(ModelResolution)

(***************************************************************************)
(* init(), lines 45-124.                                                   *)
(***************************************************************************)
\* Lines 47-95: scene, camera, renderer, lights; the three loads start and
\* init suspends at the await.
InitStart ==
    /\ pc = "idle"
    /\ pc' = "await"
    /\ scene' = {"ambientLight", "directionalLight", "directionalLightTarget"}
    /\ viewport' = windowSize
    /\ loads' = [a \in Assets |-> "pending"]
    /\ loadAttempts' = [a \in Assets |-> loadAttempts[a] + 1]
    /\ promiseAll' = "pending"
    /\ UNCHANGED <<worldWidth, worldDepth, errorShown, treeModel, data, vertices, terrainMesh, vehicle,
                   vehicleSpeed, pathPoints, roadLength, uvX, uvY, roadBuilt,
                   treeCount, clone, listeners, rafPending, frames, keys,
                   windowSize, hq, notReady>>

\* The promises combined with Promise.allSettled, which never rejects
LoadSettleAllSettled(a, outcome) ==
    /\ loads[a] = "pending"
    /\ loads' = [loads EXCEPT ![a] = outcome]
    /\ promiseAll' =
          IF promiseAll # "pending" THEN promiseAll
          ELSE IF \A b \in Assets : loads'[b] \in {"loaded", "failed"} THEN "fulfilled"
          ELSE "pending"
    /\ UNCHANGED <<worldWidth, worldDepth, pc, loadAttempts, errorShown, treeModel, data, vertices,
                   terrainMesh, scene, vehicle, vehicleSpeed, pathPoints,
                   roadLength, uvX, uvY, roadBuilt, treeCount, clone, listeners,
                   rafPending, frames, keys, viewport, windowSize, hq, notReady>>

\* One loadAsync promise settles.  Promise.all rejects with the first
\* rejection and fulfils when every promise has fulfilled.
LoadSettle(a, outcome) ==
    /\ loads[a] = "pending"
    /\ loads' = [loads EXCEPT ![a] = outcome]
    /\ promiseAll' =
          IF promiseAll # "pending" THEN promiseAll
          ELSE IF outcome = "failed" THEN "rejected"
          ELSE IF \A b \in Assets : loads'[b] = "loaded" THEN "fulfilled"
          ELSE "pending"
    /\ UNCHANGED <<worldWidth, worldDepth, pc, loadAttempts, errorShown, treeModel, data, vertices,
                   terrainMesh, scene, vehicle, vehicleSpeed, pathPoints,
                   roadLength, uvX, uvY, roadBuilt, treeCount, clone, listeners,
                   rafPending, frames, keys, viewport, windowSize, hq, notReady>>

LoadSucceeds == \E a \in Assets : LoadSettle(a, "loaded")

LoadFails == \E a \in Assets : LoadSettle(a, "failed")

\* Lines 97-103: the await returns the three assets.
AwaitFulfilled ==
    /\ pc = "await"
    /\ promiseAll = "fulfilled"
    /\ pc' = "createTerrain"
    /\ treeModel' = TRUE
    /\ UNCHANGED <<worldWidth, worldDepth, loads, loadAttempts, promiseAll, errorShown, data, vertices,
                   terrainMesh, scene, vehicle, vehicleSpeed, pathPoints,
                   roadLength, uvX, uvY, roadBuilt, treeCount, clone, listeners,
                   rafPending, frames, keys, viewport, windowSize, hq, notReady>>

\* Lines 120-123: the await throws; the catch block shows the message.
InitCatch ==
    /\ pc = "await"
    /\ promiseAll = "rejected"
    /\ pc' = "failed"
    /\ errorShown' = TRUE
    /\ UNCHANGED <<worldWidth, worldDepth, loads, loadAttempts, promiseAll, treeModel, data, vertices,
                   terrainMesh, scene, vehicle, vehicleSpeed, pathPoints,
                   roadLength, uvX, uvY, roadBuilt, treeCount, clone, listeners,
                   rafPending, frames, keys, viewport, windowSize, hq, notReady>>

(***************************************************************************)
(* createTerrain(grassTexture), lines 134-154.                             *)
(***************************************************************************)
\* Lines 135-138: the plane geometry, flat
CreateTerrainGeometry ==
    /\ pc = "createTerrain"
    /\ pc' = "terrainLoop"
    /\ vertices' = [i \in 1..size |-> 0]
    /\ UNCHANGED <<worldWidth, worldDepth, loads, loadAttempts, promiseAll, errorShown, treeModel, data,
                   terrainMesh, scene, vehicle, vehicleSpeed, pathPoints,
                   roadLength, uvX, uvY, roadBuilt, treeCount, clone, listeners,
                   rafPending, frames, keys, viewport, windowSize, hq, notReady>>

\* Lines 139-145: the loop over all `size` vertices
CreateTerrainLoop ==
    /\ pc = "terrainLoop"
    /\ pc' = "terrainMesh"
    /\ data' = [i \in 1..size |-> DataAt(i - 1)]
    /\ vertices' = [i \in 1..size |-> VertexHeight(data'[i])]
    /\ UNCHANGED <<worldWidth, worldDepth, loads, loadAttempts, promiseAll, errorShown, treeModel,
                   terrainMesh, scene, vehicle, vehicleSpeed, pathPoints,
                   roadLength, uvX, uvY, roadBuilt, treeCount, clone, listeners,
                   rafPending, frames, keys, viewport, windowSize, hq, notReady>>

\* The mesh assigned to a local variable: the global terrainMesh stays unset
CreateTerrainMeshLocal ==
    /\ pc = "terrainMesh"
    /\ pc' = "createVehicle"
    /\ terrainMesh' = terrainMesh
    /\ scene' = scene \cup {"terrainMesh"}
    /\ UNCHANGED <<worldWidth, worldDepth, loads, loadAttempts, promiseAll, errorShown, treeModel, data,
                   vertices, vehicle, vehicleSpeed, pathPoints, roadLength, uvX,
                   uvY, roadBuilt, treeCount, clone, listeners, rafPending,
                   frames, keys, viewport, windowSize, hq, notReady>>

\* Lines 147-153: normals, material, the mesh assigned and added to the scene
CreateTerrainMesh ==
    /\ pc = "terrainMesh"
    /\ pc' = "createVehicle"
    /\ terrainMesh' = TRUE
    /\ scene' = scene \cup {"terrainMesh"}
    /\ UNCHANGED <<worldWidth, worldDepth, loads, loadAttempts, promiseAll, errorShown, treeModel, data,
                   vertices, vehicle, vehicleSpeed, pathPoints, roadLength, uvX,
                   uvY, roadBuilt, treeCount, clone, listeners, rafPending,
                   frames, keys, viewport, windowSize, hq, notReady>>

\* createVehicle(), lines 297-305
CreateVehicle ==
    /\ pc = "createVehicle"
    /\ pc' = "roadsPlan"
    /\ vehicle' = [exists |-> TRUE, x |-> Int2Q(0), z |-> Int2Q(0),
                   y |-> Int2Q(5), rotation |-> 0]
    /\ scene' = scene \cup {"vehicle"}
    /\ UNCHANGED <<worldWidth, worldDepth, loads, loadAttempts, promiseAll, errorShown, treeModel, data,
                   vertices, terrainMesh, vehicleSpeed, pathPoints, roadLength,
                   uvX, uvY, roadBuilt, treeCount, clone, listeners, rafPending,
                   frames, keys, viewport, windowSize, hq, notReady>>

(***************************************************************************)
(* generateRoads(roadTexture), lines 229-293.                              *)
(***************************************************************************)
\* Lines 230-253: the planned points, the curve, the flat tube
GenerateRoadsPlan ==
    /\ pc = "roadsPlan"
    /\ pc' = "roadsUv"
    /\ pathPoints' = [i \in 1..(roadSegments + 1) |-> PlanPoint(i - 1)]
    /\ roadLength' = CurveLength
    /\ uvX' = [i \in 1..TubeVertexCount |-> TubeDefaultUvX(i - 1)]
    /\ uvY' = [i \in 1..TubeVertexCount |-> TubeDefaultUvY(i - 1, roadLength')]
    /\ UNCHANGED <<worldWidth, worldDepth, loads, loadAttempts, promiseAll, errorShown, treeModel, data,
                   vertices, terrainMesh, scene, vehicle, vehicleSpeed,
                   roadBuilt, treeCount, clone, listeners, rafPending, frames,
                   keys, viewport, windowSize, hq, notReady>>

\* Lines 255-272: the uv loop over uvAttribute.count vertices; the mesh
GenerateRoadsUv ==
    /\ pc = "roadsUv"
    /\ pc' = "roadsConform"
    /\ uvX' = [i \in 1..TubeVertexCount |-> RoadUvX(i - 1)]
    /\ uvY' = [i \in 1..TubeVertexCount |-> RoadUvY(i - 1)]
    /\ roadBuilt' = "flat"
    /\ scene' = scene \cup {"roadMesh"}
    /\ UNCHANGED <<worldWidth, worldDepth, loads, loadAttempts, promiseAll, errorShown, treeModel, data,
                   vertices, terrainMesh, vehicle, vehicleSpeed, pathPoints,
                   roadLength, treeCount, clone, listeners, rafPending, frames,
                   keys, viewport, windowSize, hq, notReady>>

\* The conform pass that also presses the terrain flat under the road
GenerateRoadsConformFlatten ==
    /\ pc = "roadsConform"
    /\ pc' = "roadsRebuild"
    /\ pathPoints' =
          [i \in 1..Len(pathPoints) |->
              [pathPoints[i] EXCEPT
                  !.y = AddQ(getTerrainHeight(pathPoints[i].x, pathPoints[i].z),
                             Clearance)]]
    /\ hq' = HeightCall(pathPoints[Len(pathPoints)].x, pathPoints[Len(pathPoints)].z)
    /\ notReady' = notReady + (IF TerrainReady THEN 0 ELSE Len(pathPoints))
    /\ vertices' = [i \in DOMAIN vertices |->
          IF \E k \in 1..Len(pathPoints) :
                i - 1 \in {CornerIndices(pathPoints[k].x, pathPoints[k].z)[c] : c \in 1..4}
          THEN 0 ELSE vertices[i]]
    /\ UNCHANGED <<worldWidth, worldDepth, loads, loadAttempts, promiseAll, errorShown, treeModel, data,
                   terrainMesh, scene, vehicle, vehicleSpeed,
                   roadLength, uvX, uvY, roadBuilt, treeCount, clone, listeners,
                   rafPending, frames, keys, viewport, windowSize>>

\* Lines 280-283: every path point is lifted onto the terrain
GenerateRoadsConform ==
    /\ pc = "roadsConform"
    /\ pc' = "roadsRebuild"
    /\ pathPoints' =
          [i \in 1..Len(pathPoints) |->
              [pathPoints[i] EXCEPT
                  !.y = AddQ(getTerrainHeight(pathPoints[i].x, pathPoints[i].z),
                             Clearance)]]
    /\ hq' = HeightCall(pathPoints[Len(pathPoints)].x, pathPoints[Len(pathPoints)].z)
    /\ notReady' = notReady + (IF TerrainReady THEN 0 ELSE Len(pathPoints))
    /\ UNCHANGED <<worldWidth, worldDepth, loads, loadAttempts, promiseAll, errorShown, treeModel, data,
                   vertices, terrainMesh, scene, vehicle, vehicleSpeed,
                   roadLength, uvX, uvY, roadBuilt, treeCount, clone, listeners,
                   rafPending, frames, keys, viewport, windowSize>>

\* Lines 285-292: the tube rebuilt on the conformed curve, the uv copied
GenerateRoadsRebuild ==
    /\ pc = "roadsRebuild"
    /\ pc' = "populateTrees"
    /\ roadBuilt' = "conformed"
    /\ UNCHANGED <<worldWidth, worldDepth, loads, loadAttempts, promiseAll, errorShown, treeModel, data,
                   vertices, terrainMesh, scene, vehicle, vehicleSpeed,
                   pathPoints, roadLength, uvX, uvY, treeCount, clone,
                   listeners, rafPending, frames, keys, viewport, windowSize,
                   hq, notReady>>

(***************************************************************************)
(* populateTrees(), lines 308-344.  One action per pass of the do-while    *)
(* loop: the sample is rejected and drawn again, or accepted and the clone *)
(* placed and added to the scene.                                          *)
(***************************************************************************)
TreeReject ==
    /\ pc = "populateTrees"
    /\ treeModel
    /\ treeCount < numTrees
    /\ \E rx \in 0..(RandDenX - 1), rz \in 0..(RandDenZ - 1) :
          LET x == SamplePosition(rx, RandDenX, terrainWidth)
              z == SamplePosition(rz, RandDenZ, terrainDepth)
          IN  /\ InRoadArea(x, z)
              /\ clone' = [NoClone EXCEPT !.state = "sampling", !.x = x, !.z = z]
    /\ UNCHANGED <<worldWidth, worldDepth, pc, loads, loadAttempts, promiseAll, errorShown, treeModel,
                   data, vertices, terrainMesh, scene, vehicle, vehicleSpeed,
                   pathPoints, roadLength, uvX, uvY, roadBuilt, treeCount,
                   listeners, rafPending, frames, keys, viewport, windowSize,
                   hq, notReady>>

TreeAccept ==
    /\ pc = "populateTrees"
    /\ treeModel
    /\ treeCount < numTrees
    /\ \E rx \in 0..(RandDenX - 1), rz \in 0..(RandDenZ - 1),
          ryaw \in 0..(RandDenYaw - 1) :
          \E x \in {SamplePosition(rx, RandDenX, terrainWidth)},
             z \in {SamplePosition(rz, RandDenZ, terrainDepth)} :
             /\ ~InRoadArea(x, z)
             /\ \E call \in {HeightCall(x, z)} :
                   /\ clone' = [state |-> "added", x |-> x, z |-> z,
                                y |-> call.h, yaw |-> Q(ryaw, RandDenYaw),
                                scale |-> treeScale]
                   /\ hq' = call
    /\ notReady' = notReady + (IF TerrainReady THEN 0 ELSE 1)
    /\ treeCount' = treeCount + 1
    /\ UNCHANGED <<worldWidth, worldDepth, pc, loads, loadAttempts, promiseAll, errorShown, treeModel,
                   data, vertices, terrainMesh, scene, vehicle, vehicleSpeed,
                   pathPoints, roadLength, uvX, uvY, roadBuilt, listeners,
                   rafPending, frames, keys, viewport, windowSize>>

\* Line 309 (no model: return at once) and the end of the for loop
PopulateTreesReturn ==
    /\ pc = "populateTrees"
    /\ ~treeModel \/ treeCount = numTrees
    /\ pc' = "listeners"
    /\ clone' = NoClone
    /\ UNCHANGED <<worldWidth, worldDepth, loads, loadAttempts, promiseAll, errorShown, treeModel, data,
                   vertices, terrainMesh, scene, vehicle, vehicleSpeed,
                   pathPoints, roadLength, uvX, uvY, roadBuilt, treeCount,
                   listeners, rafPending, frames, keys, viewport, windowSize,
                   hq, notReady>>

(***************************************************************************)
(* Lines 111-118 of init(), and the handlers.                              *)
(***************************************************************************)
AddListeners ==
    /\ pc = "listeners"
    /\ pc' = "animate"
    /\ listeners' = {"resize", "keydown", "keyup"}
    /\ UNCHANGED <<worldWidth, worldDepth, loads, loadAttempts, promiseAll, errorShown, treeModel, data,
                   vertices, terrainMesh, scene, vehicle, vehicleSpeed,
                   pathPoints, roadLength, uvX, uvY, roadBuilt, treeCount, clone,
                   rafPending, frames, keys, viewport, windowSize, hq, notReady>>

\* Line 117: init calls animate(); the clock's first getDelta() returns 0.
AnimateFirst ==
    /\ pc = "animate"
    /\ pc' = "running"
    /\ Animate(0, [x |-> vehicle.x, z |-> vehicle.z])
    /\ UNCHANGED <<worldWidth, worldDepth, loads, loadAttempts, promiseAll, errorShown, treeModel, data,
                   vertices, terrainMesh, scene, pathPoints, roadLength, uvX,
                   uvY, roadBuilt, treeCount, clone, listeners, keys, viewport,
                   windowSize>>

\* A requestAnimationFrame callback runs animate().
AnimateFrame ==
    /\ pc = "running"
    /\ rafPending
    /\ frames < MaxFrames
    /\ \E delta \in 0..MaxDelta,
          p \in VehicleProbes \cup {[x |-> vehicle.x, z |-> vehicle.z]} :
          Animate(delta, p)
    /\ UNCHANGED <<worldWidth, worldDepth, pc, loads, loadAttempts, promiseAll, errorShown, treeModel,
                   data, vertices, terrainMesh, scene, pathPoints, roadLength,
                   uvX, uvY, roadBuilt, treeCount, clone, listeners, keys,
                   viewport, windowSize>>

\* onKeyDown(event), lines 348-352
OnKeyDown(key) ==
    /\ pc = "running"
    /\ "keydown" \in listeners
    /\ keys' = IF key \in DOMAIN keys THEN [keys EXCEPT ![key] = TRUE] ELSE keys
    /\ UNCHANGED <<worldWidth, worldDepth, pc, loads, loadAttempts, promiseAll, errorShown, treeModel,
                   data, vertices, terrainMesh, scene, vehicle, vehicleSpeed,
                   pathPoints, roadLength, uvX, uvY, roadBuilt, treeCount, clone,
                   listeners, rafPending, frames, viewport, windowSize, hq,
                   notReady>>

\* onKeyUp(event), lines 354-358
OnKeyUp(key) ==
    /\ pc = "running"
    /\ "keyup" \in listeners
    /\ keys' = IF key \in DOMAIN keys THEN [keys EXCEPT ![key] = FALSE] ELSE keys
    /\ UNCHANGED <<worldWidth, worldDepth, pc, loads, loadAttempts, promiseAll, errorShown, treeModel,
                   data, vertices, terrainMesh, scene, vehicle, vehicleSpeed,
                   pathPoints, roadLength, uvX, uvY, roadBuilt, treeCount, clone,
                   listeners, rafPending, frames, viewport, windowSize, hq,
                   notReady>>

KeyDown == \E key \in EventKeys : OnKeyDown(key)

KeyUp == \E key \in EventKeys : OnKeyUp(key)

\* onWindowResize(), lines 405-409: the window takes a new size
OnWindowResize ==
    /\ pc = "running"
    /\ "resize" \in listeners
    /\ \E w \in 1..MaxWindow : windowSize' = w /\ viewport' = w
    /\ UNCHANGED <<worldWidth, worldDepth, pc, loads, loadAttempts, promiseAll, errorShown, treeModel,
                   data, vertices, terrainMesh, scene, vehicle, vehicleSpeed,
                   pathPoints, roadLength, uvX, uvY, roadBuilt, treeCount, clone,
                   listeners, rafPending, frames, keys, hq, notReady>>

Next ==
    \/ InitStart
    \/ LoadSucceeds
    \/ LoadFails
    \/ AwaitFulfilled
    \/ InitCatch
    \/ CreateTerrainGeometry
    \/ CreateTerrainLoop
    \/ CreateTerrainMesh
    \/ CreateVehicle
    \/ GenerateRoadsPlan
    \/ GenerateRoadsUv
    \/ GenerateRoadsConform
    \/ GenerateRoadsRebuild
    \/ TreeReject
    \/ TreeAccept
    \/ PopulateTreesReturn
    \/ AddListeners
    \/ AnimateFirst
    \/ AnimateFrame
    \/ KeyDown
    \/ KeyUp
    \/ OnWindowResize

Spec == Init /\ [][Next]_vars

(***************************************************************************)
(* The terrain and its height query on the grid of the source.             *)
(* SpecTerrain runs init() up to the end of createTerrain with             *)
(* worldWidth = worldDepth = resolution and then lets one caller query     *)
(* the height at a probe point.                                            *)
(***************************************************************************)
\* World coordinates of grid column i and grid row j (THREE.PlaneGeometry)
VertexX(i) == SubQ(MulQ(Int2Q(i), cellWidth), Q(terrainWidth, 2))

VertexZ(j) == SubQ(MulQ(Int2Q(j), cellDepth), Q(terrainDepth, 2))

\* Quarter-cell steps beyond an edge of the terrain: near ones and far ones
OutsideSteps == (1..MaxFar) \cup {41 * k : k \in 1..MaxFar}

\* Probe coordinates along one axis: every grid line, points inside the first,
\* a middle and the last cell, and points outside on both sides
AxisProbes(half, cell, count) ==
    {SubQ(MulQ(Int2Q(i), cell), half) : i \in 0..(count - 1)}
    \cup {SubQ(MulQ(Q(4 * i + k, 4), cell), half) :
             i \in {0, count \div 2, count - 2}, k \in 1..3}
    \cup {AddQ(half, MulQ(Q(k, 4), cell)) : k \in OutsideSteps}
    \cup {NegQ(AddQ(half, MulQ(Q(k, 4), cell))) : k \in OutsideSteps}

\* A few of them: the edges, a grid line, a point inside a cell, outside points
CoarseProbes(half, cell, count) ==
    {SubQ(MulQ(Int2Q(i), cell), half) : i \in {0, 1, count - 2, count - 1}}
    \cup {SubQ(MulQ(Q(4 * (count \div 2) + 1, 4), cell), half)}
    \cup {AddQ(half, MulQ(Q(k, 4), cell)) : k \in {1, 41 * MaxFar}}
    \cup {NegQ(AddQ(half, MulQ(Q(k, 4), cell))) : k \in {1, 41 * MaxFar}}

QueryXs == AxisProbes(Q(terrainWidth, 2), cellWidth, worldWidth)

QueryZs == AxisProbes(Q(terrainDepth, 2), cellDepth, worldDepth)

Probes ==
    (QueryXs \X CoarseProbes(Q(terrainDepth, 2), cellDepth, worldDepth))
    \cup (CoarseProbes(Q(terrainWidth, 2), cellWidth, worldWidth) \X QueryZs)

\* A caller (road conforming, tree placement, a frame) calls
\* getTerrainHeight(x, z) once the terrain is complete.
HeightQuery ==
    /\ pc = "createVehicle"
    /\ ~hq.called
    /\ \E p \in Probes : hq' = HeightCall(p[1], p[2])
    /\ notReady' = notReady + (IF TerrainReady THEN 0 ELSE 1)
    /\ UNCHANGED <<worldWidth, worldDepth, pc, loads, loadAttempts, promiseAll,
                   errorShown, treeModel, data, vertices, terrainMesh, scene,
                   vehicle, vehicleSpeed, pathPoints, roadLength, uvX, uvY,
                   roadBuilt, treeCount, clone, listeners, rafPending, frames,
                   keys, viewport, windowSize>>

InitTerrain == InitWith(resolution)

NextTerrain ==
    \/ InitStart
    \/ LoadSucceeds
    \/ LoadFails
    \/ AwaitFulfilled
    \/ InitCatch
    \/ CreateTerrainGeometry
    \/ CreateTerrainLoop
    \/ CreateTerrainMesh
    \/ HeightQuery

SpecTerrain == InitTerrain /\ [][NextTerrain]_vars

\* The start-up pipeline under fair scheduling: the synchronous code of init
\* runs on, and the random samples are fair (an accepted sample, which has
\* positive probability at every draw, is eventually drawn).
FairSpec ==
    /\ Spec
    /\ WF_vars(TreeAccept)
    /\ WF_vars(PopulateTreesReturn)

(***************************************************************************)
(* Properties of the height query (checked under SpecTerrain)              *)
(***************************************************************************)
\* a <= b, compared over the common denominator
LeqQ(a, b) ==
    LET l == Lcm(a.d, b.d)
    IN  a.n * (l \div a.d) <= b.n * (l \div b.d)

ClampQ(a, lo, hi) == IF LeqQ(a, lo) THEN lo ELSE IF LeqQ(hi, a) THEN hi ELSE a

OutsideTerrain(x, z) ==
    \/ ~LeqQ(Q(-terrainWidth, 2), x)
    \/ ~LeqQ(x, Q(terrainWidth, 2))
    \/ ~LeqQ(Q(-terrainDepth, 2), z)
    \/ ~LeqQ(z, Q(terrainDepth, 2))

\* The height of the terrain surface at a point of the terrain: the bilinear
\* patch of the cell that holds the point, at the point's position in the cell
SurfaceHeight(x, z) ==
    LET cx == clampedGridX(x)
        cz == clampedGridZ(z)
        u == SubQ(DivQ(localX(x), cellWidth), Int2Q(cx))
        v == SubQ(DivQ(localZ(z), cellDepth), Int2Q(cz))
    IN  Bilinear(u, v, getY(p00Index(cx, cz)), getY(p10Index(cx, cz)),
                 getY(p01Index(cx, cz)), getY(p11Index(cx, cz)))

CornerHeights(cell) == {getY(cell[k]) : k \in 1..4}

WithinCorners(h, cell) ==
    /\ \E y \in CornerHeights(cell) : LeqQ(y, h)
    /\ \E y \in CornerHeights(cell) : LeqQ(h, y)

\* C1: a query outside the terrain footprint uses a cell with indices in
\* 0..resolution-2, returns the height of the terrain at the point clamped to
\* the terrain boundary, and never extrapolates beyond the corner heights.
C1_OutsideQueryClamped ==
    (hq.called /\ hq.ready /\ OutsideTerrain(hq.x, hq.z)) =>
        /\ hq.cell[1] % worldWidth \in 0..(worldWidth - 2)
        /\ hq.cell[1] \div worldWidth \in 0..(worldDepth - 2)
        /\ hq.h = SurfaceHeight(ClampQ(hq.x, Q(-terrainWidth, 2), Q(terrainWidth, 2)),
                                ClampQ(hq.z, Q(-terrainDepth, 2), Q(terrainDepth, 2)))
        /\ WithinCorners(hq.h, hq.cell)

\* An outside query was made and its cell indices were clamped
C1_OutsideQueried ==
    /\ hq.called
    /\ hq.ready
    /\ OutsideTerrain(hq.x, hq.z)
    /\ hq.cell[1] % worldWidth = worldWidth - 2

\* C2: at an interior grid vertex (i, j), 1 <= i, j <= resolution-2, the query
\* reads the cell whose first corner is that vertex and returns exactly the
\* height stored at index j * resolution + i, the fractions u and v being 0.
C2_ExactAtInteriorVertex ==
    (hq.called /\ hq.ready) =>
        \A i \in 1..(worldWidth - 2) :
            (hq.x = VertexX(i)) =>
                \A j \in 1..(worldDepth - 2) :
                    (hq.z = VertexZ(j)) =>
                        /\ hq.cell[1] = j * worldWidth + i
                        /\ fracU(hq.x) = Int2Q(0)
                        /\ fracV(hq.z) = Int2Q(0)
                        /\ hq.h = Q(vertices[j * worldWidth + i + 1], VertexDen)

\* A query at an interior vertex whose stored height differs from the heights
\* of the vertices after it in the row and in the column
C2_InteriorVertexQueried ==
    /\ hq.called
    /\ hq.ready
    /\ \E i \in 1..(worldWidth - 2) :
           /\ hq.x = VertexX(i)
           /\ \E j \in 1..(worldDepth - 2) :
                  /\ hq.z = VertexZ(j)
                  /\ hq.h = getY(j * worldWidth + i)
                  /\ hq.h # getY(j * worldWidth + i + 1)
                  /\ hq.h # getY((j + 1) * worldWidth + i)
                  /\ hq.h # getY(i * worldWidth + j)

\* C10: all four corner indices read by a query lie in
\* 0..resolution*resolution-1, wherever the query point is.
C10_CornerIndicesInBounds ==
    (hq.called /\ hq.ready) =>
        /\ Len(hq.cell) = 4
        /\ \A k \in 1..4 : hq.cell[k] \in 0..(size - 1)
        /\ \A k \in 1..4 : ~IsNaN(getY(hq.cell[k]))
        /\ ~IsNaN(hq.h)

\* A query beyond the far corner of the terrain, which reads the last vertex
C10_FarCornerQueried ==
    /\ hq.called
    /\ hq.ready
    /\ ~LeqQ(hq.x, Q(terrainWidth, 2))
    /\ ~LeqQ(hq.z, Q(terrainDepth, 2))
    /\ hq.cell[4] = size - 1

(***************************************************************************)
(* Properties of createTerrain (checked under SpecTerrain)                 *)
(***************************************************************************)
\* C7: createTerrain samples the noise at exactly 128 * 128 grid points, the
\* stored sample is the scaled noise itself (no wrap modulo 256), and every
\* vertex height is the stored sample times heightScale, within [0, 30].
C7_SamplesAndHeightsInRange ==
    (pc = "terrainMesh") =>
        /\ worldWidth = 128
        /\ worldDepth = 128
        /\ Len(data) = 16384
        /\ Len(vertices) = 16384
        /\ \A i \in 1..Len(vertices) :
               /\ data[i] = TruncQ(NoiseSample(NoiseNum((i - 1) % worldWidth,
                                                        (i - 1) \div worldWidth)))
               /\ vertices[i] = data[i] * heightScale
               /\ 0 <= vertices[i]
               /\ vertices[i] <= heightScale * VertexDen

\* The loop of createTerrain has run and both extremes of the noise occurred
C7_TerrainSampled ==
    /\ pc = "terrainMesh"
    /\ \E i \in 1..Len(vertices) : vertices[i] = heightScale * VertexDen
    /\ \E i \in 1..Len(vertices) : vertices[i] = 0

(***************************************************************************)
(* Properties of the start-up pipeline (checked under Spec)                *)
(***************************************************************************)
\* C3: every tree added to the scene lies outside the road exclusion
\* rectangle |x| < 1.5 * roadWidth, |z| < terrainDepth / 2 and inside the
\* margin |x| <= 0.45 * terrainWidth, |z| <= 0.45 * terrainDepth; a sample
\* inside the rectangle is not added; populateTrees returns with numTrees trees.
C3_TreesOffRoadInsideMargin ==
    /\ treeCount \in 0..numTrees
    /\ (clone.state = "added") =>
          /\ ~(/\ LtQ(AbsQ(clone.x), Q(3 * roadWidth, 2))
               /\ LtQ(AbsQ(clone.z), Q(terrainDepth, 2)))
          /\ LeqQ(AbsQ(clone.x), Q(45 * terrainWidth, 100))
          /\ LeqQ(AbsQ(clone.z), Q(45 * terrainDepth, 100))
          /\ treeCount >= 1
    /\ (clone.state = "sampling") =>
          /\ LtQ(AbsQ(clone.x), Q(3 * roadWidth, 2))
          /\ LtQ(AbsQ(clone.z), Q(terrainDepth, 2))
    /\ (pc \in {"listeners", "animate", "running"}) => treeCount = numTrees

\* The last of the numTrees trees has just been added
C3_LastTreeAdded ==
    /\ pc = "populateTrees"
    /\ clone.state = "added"
    /\ treeCount = numTrees

TerrainPhases == {"idle", "await", "failed", "createTerrain", "terrainLoop", "terrainMesh"}

\* C4: the pipeline runs only after every load has succeeded, in the order
\* createTerrain, createVehicle, generateRoads, populateTrees, animate; every
\* call of getTerrainHeight finds the terrain mesh complete, none returns the
\* "terrain not ready" value.
C4_StartupOrder ==
    /\ (pc \notin {"idle", "await", "failed"}) =>
          /\ \A a \in Assets : loads[a] = "loaded"
          /\ treeModel
    /\ (pc \notin TerrainPhases) =>
          /\ TerrainReady
          /\ Len(vertices) = size
          /\ \A i \in 1..size : vertices[i] = VertexHeight(DataAt(i - 1))
    /\ vehicle.exists => pc \notin (TerrainPhases \cup {"createVehicle"})
    /\ (roadBuilt # "none") => vehicle.exists
    /\ (pc \in {"roadsConform", "roadsRebuild"}) => roadBuilt = "flat"
    /\ (treeCount > 0) => roadBuilt = "conformed"
    /\ (rafPending \/ frames > 0) =>
          /\ pc = "running"
          /\ treeCount = numTrees
    /\ hq.called =>
          /\ hq.ready
          /\ pc \in {"roadsRebuild", "populateTrees", "listeners", "animate", "running"}
    /\ notReady = 0

\* The pipeline is through: frames have run and the last one queried the height
C4_FramesRunning ==
    /\ pc = "running"
    /\ frames >= 2
    /\ hq.called
    /\ hq.ready
    /\ vehicle.y = AddQ(hq.h, VehicleOffset)

\* C5: when a load fails, init ends in its catch block with the error shown:
\* no terrain, vehicle, road or tree exists, no listener is registered, no
\* frame runs, and no load is attempted twice.
C5_LoadFailureAborts ==
    /\ \A a \in Assets : loadAttempts[a] <= 1
    /\ (\E a \in Assets : loads[a] = "failed") =>
          /\ pc \in {"await", "failed"}
          /\ promiseAll = "rejected"
          /\ (pc = "await") => ENABLED InitCatch
          /\ ~terrainMesh
          /\ vertices = <<>>
          /\ ~vehicle.exists
          /\ roadBuilt = "none"
          /\ pathPoints = <<>>
          /\ treeCount = 0
          /\ scene \cap {"terrainMesh", "vehicle", "roadMesh"} = {}
          /\ listeners = {}
          /\ ~rafPending
          /\ frames = 0
    /\ errorShown <=> (pc = "failed")
    /\ (pc = "failed") => \E a \in Assets : loads[a] = "failed"

\* One load failed, another succeeded, and the catch block has run
C5_FailureCaught ==
    /\ pc = "failed"
    /\ errorShown
    /\ \E a \in Assets : loads[a] = "failed"
    /\ \E a \in Assets : loads[a] = "loaded"

\* C6: once createTerrain has finished, no step writes the heightmap or the
\* vertex heights, so getTerrainHeight returns the same value for the same
\* point before and after every step.
C6_GridImmutableAfterCreateTerrain ==
    [][terrainMesh =>
          /\ vertices' = vertices
          /\ data' = data
          /\ terrainMesh'
          /\ worldWidth' = worldWidth
          /\ worldDepth' = worldDepth
          /\ (hq.called /\ hq'.x = hq.x /\ hq'.z = hq.z) => hq'.h = hq.h]_vars

\* Roads, trees and frames have all acted on the finished terrain, and the
\* last frame queried a point where the terrain is not flat
C6_LaterStepsRan ==
    /\ terrainMesh
    /\ roadBuilt = "conformed"
    /\ treeCount = numTrees
    /\ frames >= 2
    /\ hq.called
    /\ hq.h # Int2Q(0)
    /\ hq.h = getTerrainHeight(hq.x, hq.z)

\* C8: every road vertex has U in [0, 1] and V in [0, roadTextureRepeat],
\* with V = 0 on the first ring and V = roadTextureRepeat on the last.
C8_RoadUvInRange ==
    (roadBuilt # "none") =>
        /\ \A i \in 1..TubeVertexCount :
              /\ 0 <= uvX[i]
              /\ uvX[i] <= UvXDen
              /\ 0 <= uvY[i]
              /\ uvY[i] <= roadTextureRepeat * UvYDen
        /\ \A i \in 1..(radialSegments + 1) : uvY[i] = 0
        /\ \A i \in (TubeVertexCount - radialSegments)..TubeVertexCount :
              uvY[i] = roadTextureRepeat * UvYDen

\* The uv loop of generateRoads has run over all the vertices of the tube
C8_RoadUvAssigned ==
    /\ roadBuilt = "conformed"
    /\ Len(uvX) = TubeVertexCount
    /\ Len(uvY) = TubeVertexCount

\* C9: under fair sampling the rejection loop of populateTrees terminates:
\* populateTrees returns after numTrees trees.
C9_TreeLoopTerminates ==
    (pc = "populateTrees") ~> (pc = "listeners" /\ treeCount = numTrees)

\* populateTrees has returned with all its trees
C9_PopulateTreesReturned ==
    /\ pc = "listeners"
    /\ treeCount = numTrees
    /\ clone = NoClone

====
